---- MODULE Spec2Model ----
(***************************************************************************)
(* YouTube Outlier Finder (src/app.py): the analysis function              *)
(* analyze_videos, the batch channel lookup get_channel_stats and the      *)
(* "Find Outliers" button handler that renders the result.                 *)
(*                                                                         *)
(* JSON fields of the API replies are modelled by what the code can do     *)
(* with them: a field is absent, an empty string, a string that does not   *)
(* parse, or a string that parses to a number.  Ratios computed with "/"   *)
(* are kept as reduced fractions and compared by cross multiplication.     *)
(* Time is counted in ticks, TicksPerDay ticks to a day.                   *)
(***************************************************************************)
EXTENDS Integers, Sequences, FiniteSets, TLC

\* ------------------------------------------------------------- bounds
\* Longest reply of the videos request that is explored.
MaxVideos == 2
\* Largest viewCount explored.
MaxViews == 3
\* Subscriber count of a channel whose count is public.
MaxSubs == 2
\* Ticks in a day (timedelta.days is a whole number of days).
TicksPerDay == 2

Channels == {"c1", "c2"}
PublishTicks == {1}
\* The clock at the first record, and by how many ticks it moves on from one
\* record of the batch to the next.
NowBase == TicksPerDay + 1
ClockRates == {0, 1}
MinViewsChoices == {1, 2}
ViewMultipliers == {1}

\* ------------------------------------------------------- JSON values
Absent == [kind |-> "absent", n |-> 0]
Empty == [kind |-> "empty", n |-> 0]
Garbage == [kind |-> "garbage", n |-> 0]
Num(k) == [kind |-> "num", n |-> k]
\* A channel the channels request did not return.
NotReturned == [kind |-> "notreturned", n |-> 0]

\* "key" in d
Has(v) == v.kind # "absent"
\* bool(d.get(key)): a missing key gives None, "" is falsy
Truthy(v) == v.kind \in {"garbage", "num"}
\* int(d.get(key, 0)) succeeds
IntOk(v) == v.kind \in {"absent", "num"}
\* int(d.get(key, 0))
IntOf(v) == IF v.kind = "num" THEN v.n ELSE 0
\* datetime.fromisoformat(s.replace("Z", "+00:00")) succeeds
IsoOk(v) == v.kind = "num"
\* dict.get(k, default)
DictGet(d, k, default) == IF k \in DOMAIN d THEN d[k] ELSE default

\* ------------------------------------------------------------ ratios
RECURSIVE GCD(_, _)
GCD(a, b) == IF b = 0 THEN a ELSE GCD(b, a % b)
\* a / b for a >= 0, b >= 1
Ratio(a, b) == [num |-> a \div GCD(a, b), den |-> b \div GCD(a, b)]
RatGT(x, y) == x.num * y.den > y.num * x.den
RatGE(x, y) == x.num * y.den >= y.num * x.den
Max(a, b) == IF a >= b THEN a ELSE b

\* ------------------------------------------------------ input batches
Video(vc, lc, cc, pa, ch) ==
    [statistics |-> [viewCount |-> vc, likeCount |-> lc, commentCount |-> cc],
     snippet |-> [publishedAt |-> pa, channelId |-> ch]]

\* Well-formed records, and the malformed ones the code has a path for.
VideoShapes ==
    { Video(Num(v), Absent, Absent, Num(0), c) : v \in 1..MaxViews, c \in Channels }
    \cup { Video(Num(MaxViews), Absent, Absent, Num(p), "c1") : p \in PublishTicks }
    \cup { Video(Absent, Garbage, Absent, Num(0), "c1"),
           Video(Num(MaxViews), Absent, Absent, Absent, "c1"),
           Video(Num(MaxViews), Absent, Absent, Empty, "c2"),
           Video(Num(MaxViews), Num(1), Num(1), Num(0), ""),
           Video(Garbage, Absent, Absent, Num(0), "c1"),
           Video(Num(MaxViews), Absent, Absent, Garbage, "c1") }

\* The reply of videos().list: record i has id i.
Batches ==
    UNION { [1..n -> VideoShapes] : n \in 1..MaxVideos }
WithIds(batch) ==
    [i \in 1..Len(batch) |->
        [id |-> i, statistics |-> batch[i].statistics, snippet |-> batch[i].snippet]]

\* search().list: one item per video of the reply, carrying its id and the
\* channel that published it.  A search item always names its channel
\* (item["snippet"]["channelId"] is read without a default), also when the
\* videos reply leaves channelId out.
SearchResultsOf(vs) ==
    [i \in 1..Len(vs) |->
        [videoId |-> vs[i].id,
         channelId |-> IF vs[i].snippet.channelId = "" THEN "c1"
                       ELSE vs[i].snippet.channelId]]
\* A search that found a video of which videos().list returns nothing.
LoneSearchResult == << [videoId |-> 1, channelId |-> "c1"] >>

\* Replies of channels().list to a request for ids: each requested channel is
\* left out, returned without subscriberCount (hidden), or returned with it.
SubsReplies == {NotReturned, Absent, Num(MaxSubs)}
ChannelReplies(ids) == [ids -> SubsReplies]

\* The r-th reading of datetime.now(timezone.utc) during one call.
NowRead(rate, r) == NowBase + rate * (r - 1)

\* ------------------------------------------------------------ results
NoErr == "None"
MsgNoVideos == "No videos found."
MsgNoCriteria == "No videos meet the criteria (high views from small channels)."
MsgQuota == "Quota exceeded. Try tomorrow."
MsgApiError == "API error: reason"
MsgError == "Error: message"
NoFault == "none"
RequestFaults == {"HttpError403", "HttpError", "Exception"}
RequestStages == {"search", "videos"}
\* Exceptions of the channels request, which get_channel_stats catches.
StatsFaults == {"HttpError403"}

NoneFrame == [isNone |-> TRUE, rows |-> << >>]
DataFrame(rows) == [isNone |-> FALSE, rows |-> rows]
Return(d, o, e) == [df |-> d, outliers_df |-> o, err |-> e]

\* ------------------------------------------------- get_channel_stats
\* The dict comprehension over the returned channels.
SubscriberMap(reply) ==
    [c \in {x \in DOMAIN reply : reply[x].kind # "notreturned"} |-> IntOf(reply[c])]

\* reply is what the wrapped call yields, freshly fetched or taken from the
\* st.cache_data cache; an exception of the request is caught and gives {}.
get_channel_stats(channel_ids, reply, fault) ==
    IF channel_ids = {} THEN << >>
    ELSE IF fault # NoFault THEN << >>
    ELSE SubscriberMap(reply)

\* ---------------------------------------------------- analyze_videos
\* Mutant: the test for publishedAt is forgotten.
MissingViewCountOnly(v) == ~Has(v.statistics.viewCount)

\* if "viewCount" not in stats or not snip.get("publishedAt"): continue
MissingRequired(v) ==
    \/ ~Has(v.statistics.viewCount)
    \/ ~Truthy(v.snippet.publishedAt)

\* fromisoformat and the three int() conversions
ParseFails(v) ==
    \/ ~IsoOk(v.snippet.publishedAt)
    \/ ~IntOk(v.statistics.viewCount)
    \/ ~IntOk(v.statistics.likeCount)
    \/ ~IntOk(v.statistics.commentCount)

\* Mutant: the floor itself is dropped too.
BelowOrAtMinViews(views, mv) == views <= mv

\* if views < min_views: continue
BelowMinViews(views, mv) == views < mv

AgeDays(now, pub) == Max(1, (now - pub) \div TicksPerDay)

SubsOf(channel_subs, channel_id) == DictGet(channel_subs, channel_id, 0)

\* Mutant: the divisor is subs + 1 instead of max(subs, 1).
MultiplierRatioPlusOne(views, subs) == Ratio(views, subs + 1)

MultiplierRatio(views, subs) == Ratio(views, Max(subs, 1))

\* Mutant: the comparison is the wrong way round.
IsOutlierBelow(ratio, vm) == RatGT(Ratio(vm, 1), ratio)

IsOutlier(ratio, vm) == RatGT(ratio, Ratio(vm, 1))

EngagementRate(likes, comments, views) ==
    IF views > 0 THEN Ratio(likes + comments, views) ELSE Ratio(0, 1)

MakeRow(v, channel_subs, vm, now) ==
    LET pub == v.snippet.publishedAt.n
        age == AgeDays(now, pub)
        views == IntOf(v.statistics.viewCount)
        likes == IntOf(v.statistics.likeCount)
        comments == IntOf(v.statistics.commentCount)
        channel_id == v.snippet.channelId
        subs == SubsOf(channel_subs, channel_id)
        ratio == MultiplierRatio(views, subs)
    IN  [publish_date |-> pub \div TicksPerDay,
         views |-> views,
         velocity |-> Ratio(views, age),
         engagement_rate |-> EngagementRate(likes, comments, views),
         subscribers |-> subs,
         multiplier_ratio |-> ratio,
         outlier_score |-> ratio,
         is_outlier |-> IsOutlier(ratio, vm),
         video_id |-> v.id,
         channel_id |-> channel_id,
         likes |-> likes,
         comments |-> comments,
         age_days |-> age]

\* The for loop over the videos reply: i is the next record, r the number of
\* clock readings taken so far.  An exception ends the loop.
RECURSIVE BuildRows(_, _, _, _, _)
BuildRows(vs, i, r, rows, ctx) ==
    IF i > Len(vs) THEN [rows |-> rows, exc |-> "None"]
    ELSE IF MissingRequired(vs[i]) THEN BuildRows(vs, i + 1, r, rows, ctx)
    ELSE IF ParseFails(vs[i]) THEN [rows |-> rows, exc |-> "ValueError"]
    ELSE IF BelowMinViews(IntOf(vs[i].statistics.viewCount), ctx.min_views)
         THEN BuildRows(vs, i + 1, r + 1, rows, ctx)
    ELSE BuildRows(vs, i + 1, r + 1,
                   Append(rows, MakeRow(vs[i], ctx.channel_subs,
                                        ctx.view_multiplier, NowRead(ctx.rate, r + 1))),
                   ctx)

\* Mutant: the boolean mask is forgotten.
SelectAll(rows) == rows

\* df[df["is_outlier"]]
SelectOutliers(rows) == SelectSeq(rows, LAMBDA row : row.is_outlier)

\* sort_values("outlier_score", ascending=False): pandas sorts with an
\* unstable quicksort, so rows of equal score come out in any order.
IsDescending(rows) ==
    \A i \in 1..(Len(rows) - 1) : RatGE(rows[i].outlier_score, rows[i + 1].outlier_score)
RowOrders(rows) ==
    { [i \in 1..Len(rows) |-> rows[p[i]]] :
        p \in { q \in [1..Len(rows) -> 1..Len(rows)] :
                  \A a, b \in 1..Len(rows) : q[a] = q[b] => a = b } }
SortValues(rows) == { s \in RowOrders(rows) : IsDescending(s) }

\* Mutant: status 403 is not told apart from other HttpErrors.
ErrorReturnNoQuota(fault) ==
    IF fault \in {"HttpError403", "HttpError"}
    THEN Return(NoneFrame, NoneFrame, MsgApiError)
    ELSE Return(NoneFrame, NoneFrame, MsgError)

\* except HttpError / except Exception
ErrorReturn(fault) ==
    IF fault = "HttpError403" THEN Return(NoneFrame, NoneFrame, MsgQuota)
    ELSE IF fault = "HttpError" THEN Return(NoneFrame, NoneFrame, MsgApiError)
    ELSE Return(NoneFrame, NoneFrame, MsgError)

\* The set of triples a call can return.  rfault = <<stage, kind>> is the
\* exception a request raises, or <<NoFault, NoFault>>.
analyze_videos(search_results, vs, reply, sfault, rfault, mv, vm, rate) ==
    IF rfault[1] = "search" THEN {ErrorReturn(rfault[2])}
    ELSE IF search_results = << >> THEN {Return(NoneFrame, NoneFrame, MsgNoVideos)}
    ELSE IF rfault[1] = "videos" THEN {ErrorReturn(rfault[2])}
    ELSE
      LET channel_ids == {search_results[i].channelId : i \in 1..Len(search_results)}
          channel_subs == get_channel_stats(channel_ids, reply, sfault)
          out == BuildRows(vs, 1, 0, << >>,
                           [channel_subs |-> channel_subs, min_views |-> mv,
                            view_multiplier |-> vm, rate |-> rate])
      IN  IF out.exc # "None" THEN {ErrorReturn("Exception")}
          ELSE IF out.rows = << >>
               THEN {Return(NoneFrame, NoneFrame, MsgNoCriteria)}
          ELSE { Return(DataFrame(out.rows), DataFrame(o), NoErr) :
                   o \in SortValues(SelectOutliers(out.rows)) }

\* ------------------------------------------- "Find Outliers" handler
\* Keys of the dict appended per row.
DfColumns ==
    {"title", "publish_date", "views", "velocity", "engagement_rate", "subscribers",
     "multiplier_ratio", "outlier_score", "is_outlier", "video_id", "thumbnail",
     "channel_id", "likes", "comments", "age_days"}
\* Columns selected into display_df.
DisplayColumns ==
    {"title", "publish_date", "views", "subscribers", "multiplier_ratio", "velocity",
     "engagement_rate", "is_outlier"}

Stages == <<"top_stats", "cards", "all_videos", "charts", "table">>

\* The columns each stage sorts by or reads.
StageReads(stage) ==
    CASE stage = "top_stats" -> {"multiplier_ratio"}
      [] stage = "cards" ->
            {"video_id", "is_outlier", "thumbnail", "title", "views", "subscribers",
             "multiplier_ratio", "velocity", "engagement_rate"}
      [] stage = "all_videos" ->
            {"outlier_score", "video_id", "is_outlier", "title", "views",
             "subscribers", "multiplier_ratio"}
      [] stage = "charts" -> {"views", "multiplier_ratio", "title", "outlier_score"}
      [] stage = "table" ->
            {"outlier_score", "video_id", "is_outlier", "title", "views",
             "subscribers", "multiplier_ratio", "velocity"}

\* The columns of the frame the stage operates on.
StageFrame(stage) == IF stage = "table" THEN DisplayColumns ELSE DfColumns

StageRaises(stage) == ~(StageReads(stage) \subseteq StageFrame(stage))

\* The stages completed before the first one that raises.
RECURSIVE RunStages(_, _)
RunStages(k, done) ==
    IF k > Len(Stages) THEN [rendered |-> done, raised |-> "None"]
    ELSE IF StageRaises(Stages[k]) THEN [rendered |-> done, raised |-> "KeyError"]
    ELSE RunStages(k + 1, Append(done, Stages[k]))

\* if err: st.error(err) else: the five stages
Render(ret) ==
    IF ret.err # NoErr THEN [rendered |-> <<"st.error">>, raised |-> "None"]
    ELSE RunStages(1, << >>)

VARIABLES api_key_valid, pc, search_results, videos, channel_reply, stats_fault,
          request_fault, min_views, view_multiplier, clock_rate, df, outliers_df,
          err, rendered, raised

vars == <<api_key_valid, pc, search_results, videos, channel_reply, stats_fault,
          request_fault, min_views, view_multiplier, clock_rate, df, outliers_df,
          err, rendered, raised>>

\* A fresh script run: nothing fetched, nothing shown.
Fresh ==
    /\ pc = "idle"
    /\ search_results = << >>
    /\ videos = << >>
    /\ channel_reply = << >>
    /\ stats_fault = NoFault
    /\ request_fault = <<NoFault, NoFault>>
    /\ min_views = 0
    /\ view_multiplier = 0
    /\ clock_rate = 0
    /\ df = NoneFrame
    /\ outliers_df = NoneFrame
    /\ err = NoErr
    /\ rendered = << >>
    /\ raised = "None"

Init == api_key_valid = FALSE /\ Fresh

\* "Validate Key": get_youtube_service returns a service or None.
ValidateKey ==
    /\ ~api_key_valid
    /\ pc = "idle"
    /\ \E ok \in BOOLEAN : api_key_valid' = ok
    /\ UNCHANGED <<pc, search_results, videos, channel_reply, stats_fault,
                   request_fault, min_views, view_multiplier, clock_rate, df,
                   outliers_df, err, rendered, raised>>

\* The click with the call of analyze_videos and the rendering that follows.
Click(sr, vs, reply, sfault, rfault, mv, vm, rate) ==
    \E ret \in analyze_videos(sr, vs, reply, sfault, rfault, mv, vm, rate) :
        /\ pc' = "shown"
        /\ search_results' = sr
        /\ videos' = vs
        /\ channel_reply' = reply
        /\ stats_fault' = sfault
        /\ request_fault' = rfault
        /\ min_views' = mv
        /\ view_multiplier' = vm
        /\ clock_rate' = rate
        /\ df' = ret.df
        /\ outliers_df' = ret.outliers_df
        /\ err' = ret.err
        /\ rendered' = Render(ret).rendered
        /\ raised' = Render(ret).raised
        /\ UNCHANGED api_key_valid

\* A blank query is refused before any request is made.
BlankQuery ==
    /\ api_key_valid
    /\ pc = "idle"
    /\ pc' = "rejected"
    /\ rendered' = <<"st.error">>
    /\ UNCHANGED <<api_key_valid, search_results, videos, channel_reply, stats_fault,
                   request_fault, min_views, view_multiplier, clock_rate, df,
                   outliers_df, err, raised>>

\* A request raises.
FindOutliersFault ==
    /\ api_key_valid
    /\ pc = "idle"
    /\ \E stage \in RequestStages, kind \in RequestFaults,
          mv \in MinViewsChoices, vm \in ViewMultipliers :
        Click(IF stage = "search" THEN << >> ELSE LoneSearchResult, << >>, << >>,
              NoFault, <<stage, kind>>, mv, vm, 0)

\* The search finds nothing.
FindOutliersEmpty ==
    /\ api_key_valid
    /\ pc = "idle"
    /\ \E mv \in MinViewsChoices, vm \in ViewMultipliers :
        Click(<< >>, << >>, << >>, NoFault, <<NoFault, NoFault>>, mv, vm, 0)

\* The channel lookup fails and is swallowed by get_channel_stats.
FindOutliersStatsFault ==
    /\ api_key_valid
    /\ pc = "idle"
    /\ \E batch \in Batches, sfault \in StatsFaults,
          mv \in MinViewsChoices, vm \in ViewMultipliers, rate \in ClockRates :
        Click(SearchResultsOf(WithIds(batch)), WithIds(batch), << >>, sfault,
              <<NoFault, NoFault>>, mv, vm, rate)

\* Every request answers.
FindOutliers ==
    /\ api_key_valid
    /\ pc = "idle"
    /\ \E batch \in Batches \cup {<< >>},
          mv \in MinViewsChoices, vm \in ViewMultipliers, rate \in ClockRates :
        LET vs == WithIds(batch)
            sr == IF batch = << >> THEN LoneSearchResult ELSE SearchResultsOf(vs)
        IN  \E reply \in ChannelReplies({sr[i].channelId : i \in 1..Len(sr)}) :
                Click(sr, vs, reply, NoFault, <<NoFault, NoFault>>, mv, vm, rate)

\* The next interaction runs the script again from the top.
Rerun ==
    /\ pc \in {"shown", "rejected"}
    /\ pc' = "idle"
    /\ search_results' = << >>
    /\ videos' = << >>
    /\ channel_reply' = << >>
    /\ stats_fault' = NoFault
    /\ request_fault' = <<NoFault, NoFault>>
    /\ min_views' = 0
    /\ view_multiplier' = 0
    /\ clock_rate' = 0
    /\ df' = NoneFrame
    /\ outliers_df' = NoneFrame
    /\ err' = NoErr
    /\ rendered' = << >>
    /\ raised' = "None"
    /\ UNCHANGED api_key_valid

Next ==
    \/ ValidateKey
    \/ BlankQuery
    \/ FindOutliersFault
    \/ FindOutliersEmpty
    \/ FindOutliersStatsFault
    \/ FindOutliers
    \/ Rerun

Spec == Init /\ [][Next]_vars

\* ============================================================ claims
\* A call of analyze_videos has returned a batch.
Succeeded == pc = "shown" /\ ~df.isNone
\* Every request of the call answered (the channel lookup may still have failed).
RequestsAnswered == pc = "shown" /\ request_fault = <<NoFault, NoFault>>
RowsOf(frame) == {frame.rows[k] : k \in 1..Len(frame.rows)}
\* The subscriber count the input gives for a channel: 0 when the lookup
\* failed, the channel was not returned, or its count is hidden.
SubscriberCount(ch) ==
    IF stats_fault # NoFault THEN 0
    ELSE IF ch \notin DOMAIN channel_reply THEN 0
    ELSE IF channel_reply[ch].kind = "num" THEN channel_reply[ch].n
    ELSE 0
\* The input record lacks viewCount or publishedAt.
Invalid(v) ==
    \/ v.statistics.viewCount.kind = "absent"
    \/ v.snippet.publishedAt.kind \in {"absent", "empty"}
\* The input record has both, and one of its fields does not parse.
Malformed(v) ==
    /\ ~Invalid(v)
    /\ \/ v.snippet.publishedAt.kind # "num"
       \/ v.statistics.viewCount.kind # "num"
       \/ v.statistics.likeCount.kind \in {"empty", "garbage"}
       \/ v.statistics.commentCount.kind \in {"empty", "garbage"}

\* C1: in every returned row outlier_score = views / max(1, subscriberCount),
\* the divisor being 1 for a channel with 0, hidden or unfetched subscribers,
\* and is_outlier holds exactly when outlier_score > view_multiplier and
\* views >= min_views.
C1_ScoreAndFlag ==
    Succeeded =>
        \A row \in RowsOf(df) :
            LET v == videos[row.video_id]
                views == v.statistics.viewCount.n
                subs == SubscriberCount(v.snippet.channelId)
                divisor == IF subs >= 1 THEN subs ELSE 1
            IN  /\ row.outlier_score.num * divisor = views * row.outlier_score.den
                /\ row.is_outlier <=>
                      /\ row.outlier_score.num > view_multiplier * row.outlier_score.den
                      /\ views >= min_views

\* A batch with a flagged row of a hidden-subscriber channel and an unflagged
\* row of a channel with MaxSubs subscribers.
C1_Witness ==
    /\ Succeeded
    /\ \E row \in RowsOf(df) :
          /\ row.is_outlier
          /\ row.channel_id \in DOMAIN channel_reply
          /\ channel_reply[row.channel_id].kind = "absent"
    /\ \E row \in RowsOf(df) :
          /\ ~row.is_outlier
          /\ row.subscribers = MaxSubs
          /\ row.views > 0

\* C2 (as claimed): the returned df and outliers_df are each sorted by
\* outlier_score descending, ties by publishedAt descending.
SortedByScoreThenPublished(rows) ==
    \A i \in 1..(Len(rows) - 1) :
        \/ RatGT(rows[i].outlier_score, rows[i + 1].outlier_score)
        \/ /\ rows[i].outlier_score = rows[i + 1].outlier_score
           /\ videos[rows[i].video_id].snippet.publishedAt.n
                >= videos[rows[i + 1].video_id].snippet.publishedAt.n
C2_SortedOutput ==
    Succeeded =>
        /\ SortedByScoreThenPublished(df.rows)
        /\ SortedByScoreThenPublished(outliers_df.rows)

\* C3 (as claimed): when no record survives and no request failed, the caller
\* is handed a normal result: err is empty and the handler does not take its
\* failure path.
C3_NoDataIsNormal ==
    (RequestsAnswered /\ df.isNone /\ \A i \in 1..Len(videos) : ~Malformed(videos[i]))
        => (err = NoErr /\ rendered # <<"st.error">>)

\* C4: a record without viewCount or publishedAt is in neither frame, raises
\* nothing, and the call returns what it returns for the batch without it.
C4_InvalidDropped ==
    RequestsAnswered =>
        LET kept == SelectSeq(videos, LAMBDA v : ~Invalid(v))
        IN  /\ \A row \in RowsOf(df) \cup RowsOf(outliers_df) :
                  ~Invalid(videos[row.video_id])
            /\ (err = MsgError) => \E i \in 1..Len(kept) : Malformed(kept[i])
            /\ \E ret \in analyze_videos(SearchResultsOf(kept), kept, channel_reply,
                                         stats_fault, request_fault, min_views,
                                         view_multiplier, clock_rate) :
                  /\ ret.df = df
                  /\ ret.outliers_df = outliers_df
                  /\ (ret.err = err \/ kept = << >>)

\* A batch is returned although a record without viewCount (and with a
\* likeCount that does not parse) came before a retained one.
C4_Witness ==
    /\ Succeeded
    /\ \E i, j \in 1..Len(videos) :
          /\ i < j
          /\ videos[i].statistics.viewCount.kind = "absent"
          /\ videos[i].statistics.likeCount.kind = "garbage"
          /\ \E row \in RowsOf(df) : row.video_id = j

\* C5: every returned row has views >= min_views, and every input record with
\* viewCount and publishedAt and views >= min_views is in df exactly once.
C5_MinViewsFloor ==
    Succeeded =>
        /\ \A row \in RowsOf(df) \cup RowsOf(outliers_df) : row.views >= min_views
        /\ \A i \in 1..Len(videos) :
              (~Invalid(videos[i]) /\ videos[i].statistics.viewCount.n >= min_views)
                 => Cardinality({k \in 1..Len(df.rows) : df.rows[k].video_id = i}) = 1
        /\ \A k \in 1..Len(df.rows) :
              LET v == videos[df.rows[k].video_id]
              IN  ~Invalid(v) /\ df.rows[k].views = v.statistics.viewCount.n

\* A batch from which one record was dropped for its views and one kept.
C5_Witness ==
    /\ Succeeded
    /\ Len(df.rows) < Len(videos)
    /\ \E i \in 1..Len(videos) :
          /\ ~Invalid(videos[i])
          /\ videos[i].statistics.viewCount.n < min_views
          /\ videos[i].statistics.viewCount.n > 0

\* C6: with one record's viewCount raised and all else equal, the record's
\* outlier_score is not smaller and a flagged record stays flagged.
C6_MonotonicInViews ==
    Succeeded =>
        \A row \in RowsOf(df) : \A w \in 0..MaxViews :
            (w > row.views) =>
                LET i == row.video_id
                    raisedViews == [videos EXCEPT ![i].statistics.viewCount = Num(w)]
                IN  \A ret \in analyze_videos(search_results, raisedViews, channel_reply,
                                              stats_fault, request_fault, min_views,
                                              view_multiplier, clock_rate) :
                        \E row2 \in RowsOf(ret.df) :
                            /\ row2.video_id = i
                            /\ row2.views = w
                            /\ RatGE(row2.outlier_score, row.outlier_score)
                            /\ row.is_outlier => row2.is_outlier

\* A flagged row and an unflagged row whose views can both still be raised.
C6_Witness ==
    /\ Succeeded
    /\ \E row \in RowsOf(df) : row.is_outlier /\ row.views < MaxViews
    /\ \E row \in RowsOf(df) : ~row.is_outlier /\ row.views < MaxViews

\* C7 (as claimed): one evaluation time is used for every record of a batch,
\* so age_days and velocity of all rows are those of a single "now".
C7_SingleEvaluationTime ==
    Succeeded =>
        \E now \in 0..(NowBase + MaxVideos) :
            \A row \in RowsOf(df) :
                LET pub == videos[row.video_id].snippet.publishedAt.n
                    age == IF (now - pub) \div TicksPerDay >= 1
                           THEN (now - pub) \div TicksPerDay ELSE 1
                IN  row.age_days = age /\ row.velocity = Ratio(row.views, age)

\* C8: outliers_df holds exactly the rows of df with is_outlier, each once
\* and unchanged.
C8_OutlierSubset ==
    Succeeded =>
        /\ ~outliers_df.isNone
        /\ \A row \in RowsOf(outliers_df) : row \in RowsOf(df) /\ row.is_outlier
        /\ \A row \in RowsOf(df) :
              row.is_outlier =>
                 Cardinality({k \in 1..Len(outliers_df.rows) : outliers_df.rows[k] = row}) = 1
        /\ Len(outliers_df.rows)
              = Cardinality({k \in 1..Len(df.rows) : df.rows[k].is_outlier})

\* A batch with a flagged and an unflagged row.
C8_Witness ==
    /\ Succeeded
    /\ \E row \in RowsOf(df) : row.is_outlier
    /\ \E row \in RowsOf(df) : ~row.is_outlier

\* The two shapes of the returned triple.
TripleShape ==
    \/ err = NoErr /\ ~df.isNone /\ Len(df.rows) >= 1 /\ ~outliers_df.isNone
    \/ err # NoErr /\ err # "" /\ df.isNone /\ outliers_df.isNone

\* C9 (as claimed): the triple has one of the two shapes, and an HttpError 403
\* raised during the call gives the quota message, another HttpError the
\* API-error message, any other exception the generic message.
C9_EveryExceptionReported ==
    pc = "shown" =>
        /\ TripleShape
        /\ ("HttpError403" \in {request_fault[2], stats_fault}) => err = MsgQuota
        /\ ("HttpError" \in {request_fault[2], stats_fault}) => err = MsgApiError
        /\ ("Exception" \in {request_fault[2], stats_fault}) => err = MsgError

\* C9 (amended): the same for an exception raised by the search or videos
\* request or by a malformed item; an exception of the channel lookup is caught
\* in get_channel_stats and the call goes on with no subscriber counts.
C9_RequestExceptionReported ==
    pc = "shown" =>
        /\ TripleShape
        /\ request_fault[2] = "HttpError403" => err = MsgQuota
        /\ request_fault[2] = "HttpError" => err = MsgApiError
        /\ request_fault[2] = "Exception" => err = MsgError
        /\ (RequestsAnswered /\ \E i \in 1..Len(videos) : Malformed(videos[i]))
              => err = MsgError
        /\ (RequestsAnswered /\ stats_fault # NoFault)
              => \A row \in RowsOf(df) : row.subscribers = 0
        /\ err \in {MsgQuota, MsgApiError}
              => request_fault[2] \in {"HttpError403", "HttpError"}

\* The videos request raised HttpError 403 and the quota message came back.
C9_Witness ==
    /\ pc = "shown"
    /\ request_fault = <<"videos", "HttpError403">>
    /\ err = MsgQuota
    /\ df.isNone

\* C10 (as claimed): after a successful analysis the handler completes all
\* five rendering stages and raises nothing.
C10_RenderingCompletes ==
    Succeeded => (raised = "None" /\ rendered = Stages)
====
